---- MODULE Spec2Model ----
(***************************************************************************)
(* SwiftCare ambulance dispatch: the emergency_requests and ambulances     *)
(* tables, the auto-dispatch insert trigger, the administrator dashboard   *)
(* (assignAmbulance, assignDriverToAmbulance) and the driver dashboard     *)
(* (updateRequestStatus), with the row-level-security policies that filter *)
(* their UPDATE statements; the public request form and tracking page with *)
(* the tracking codes.  Every database statement is one atomic step;  *)
(* a handler with several awaited statements is several steps.  A dashboard *)
(* acts on the rows of its last fetchData: the step that reads them (the    *)
(* user's choice in the rendered page) comes before the steps that write.   *)
(*                                                                         *)
(* Coordinates are integers in units of 1/10000 degree.                    *)
(***************************************************************************)
EXTENDS Integers, FiniteSets, Sequences, TLC

NULL == "null"
\* SQL NULL in a DOUBLE PRECISION coordinate column: a value no coordinate has.
NULLCOORD == 0 - 360 * 10000

\* Number of emergency requests that may be submitted.
MaxRequests == 2
\* Number of times the administrators may change an ambulance's driver.
MaxDriverChanges == 2
\* Number of dashboards that may be inside a handler at the same time.
MaxInFlight == 2

Requests == 1..MaxRequests
Ambulances == {"A1", "A2"}
Drivers == {"d1", "d2"}
Admins == {"adm1", "adm2"}

\* COALESCE(a.current_lat, 9.0579) and COALESCE(a.current_lng, 7.4951)
DefaultLat == 90579
DefaultLng == 74951

\* 60 degrees.
Deg60 == 60 * 10000
\* Stations of the ambulances: A1 at (60, 60) degrees; A2 without coordinates,
\* as createAmbulance inserts it (a plate number only).
Station(x) == IF x = "A1" THEN <<Deg60, Deg60>> ELSE <<NULLCOORD, NULLCOORD>>
\* Locations a request may be submitted from: (60, 0) degrees.
Locations == {<<Deg60, 0>>}

AmbulanceStatus == {"available", "en_route", "arrived", "busy", "offline"}
RequestStatus == {"pending", "assigned", "en_route", "arrived", "completed", "cancelled"}
ActiveStatus == {"assigned", "en_route", "arrived"}
\* The items of the driver dashboard's status Select.
DriverSelectItems == {"en_route", "arrived", "completed"}

VARIABLES
  amb,    \* table ambulances: id -> row
  req,    \* table emergency_requests: id -> row (status "none": not inserted)
  txn,    \* the INSERT transaction of each request: trigger state
  adm,    \* each administrator dashboard: handler position and React state
  drv,    \* each driver dashboard: handler position and React state
  changes, \* number of driver-to-ambulance changes made so far
  trk     \* the tracking_code column, the values gen_random_uuid() takes,
          \* and the public pages' React state

vars == <<amb, req, txn, adm, drv, changes, trk>>

----------------------------------------------------------------------------
(* Geo-distance utility and the trigger's planar distance *)

Abs(x) == IF x < 0 THEN -x ELSE x

\* 1000 * Math.cos(x * Math.PI / 180), x in 1/10000 degree, on the angles
\* the model's coordinates produce (exact at 0 and 60 degrees, rounded at
\* 9.0579, 50.9421 and 7.4951 degrees).
Cos(x) ==
  CASE Abs(x) = 0 -> 1000
    [] Abs(x) = Deg60 -> 500
    [] Abs(x) = DefaultLat -> 988
    [] Abs(x) = Deg60 - DefaultLat -> 630
    [] Abs(x) = DefaultLng -> 991

\* calculateDistance: the haversine term a, scaled by 2 * 10^9, with
\* sin^2(x/2) written (1 - cos x)/2.  The distance R * 2 * atan2(sqrt a,
\* sqrt(1-a)) is strictly increasing in a, so comparing a compares distances.
calculateDistance(lat1, lng1, lat2, lng2) ==
  1000000 * (1000 - Cos(lat2 - lat1))
    + Cos(lat1) * Cos(lat2) * (1000 - Cos(lng2 - lng1))

COALESCE(v, d) == IF v = NULLCOORD THEN d ELSE v

\* x * x as <<hi, lo>> with x*x = hi * 10000 + lo (the squares exceed 2^31).
Square(x) ==
  LET q == Abs(x) \div 10000
      r == Abs(x) % 10000
  IN  <<q * q * 10000 + 2 * q * r + (r * r) \div 10000, (r * r) % 10000>>

\* POWER(dlat, 2) + POWER(dlng, 2), as <<hi, lo>>; SQRT is increasing, so the
\* ORDER BY compares these sums.
SumOfSquares(dlat, dlng) ==
  LET a == Square(dlat)
      b == Square(dlng)
  IN  <<a[1] + b[1] + (a[2] + b[2]) \div 10000, (a[2] + b[2]) % 10000>>

Less(a, b) == a[1] < b[1] \/ (a[1] = b[1] /\ a[2] < b[2])

\* The "distance" column of the trigger's SELECT for ambulance row a.
distance(a, row) ==
  SumOfSquares(COALESCE(a.current_lat, DefaultLat) - row.location_lat,
               COALESCE(a.current_lng, DefaultLng) - row.location_lng)

----------------------------------------------------------------------------
(* Tracking codes: strings are sequences of one-character strings *)

LowerCaseLetters ==
  <<"a", "b", "c", "d", "e", "f", "g", "h", "i", "j", "k", "l", "m",
    "n", "o", "p", "q", "r", "s", "t", "u", "v", "w", "x", "y", "z">>
UpperCaseLetters ==
  <<"A", "B", "C", "D", "E", "F", "G", "H", "I", "J", "K", "L", "M",
    "N", "O", "P", "Q", "R", "S", "T", "U", "V", "W", "X", "Y", "Z">>

\* The characters of the model's strings.
Characters ==
  {LowerCaseLetters[k] : k \in 1..Len(LowerCaseLetters)}
    \cup {UpperCaseLetters[k] : k \in 1..Len(UpperCaseLetters)}
    \cup {"0", "1", "2", "3", "4", "5", "6", "7", "8", "9", "-", " "}

\* The upper-case form of each character: of a lower-case letter the
\* upper-case one, of any other character itself.
UpperCase ==
  [c \in Characters |->
     IF \E k \in 1..Len(LowerCaseLetters) : LowerCaseLetters[k] = c
     THEN UpperCaseLetters[CHOOSE k \in 1..Len(LowerCaseLetters) :
                              LowerCaseLetters[k] = c]
     ELSE c]

\* The lower-case form of each character.
LowerCase ==
  [c \in Characters |->
     IF \E k \in 1..Len(UpperCaseLetters) : UpperCaseLetters[k] = c
     THEN LowerCaseLetters[CHOOSE k \in 1..Len(UpperCaseLetters) :
                              UpperCaseLetters[k] = c]
     ELSE c]

\* SQL UPPER(text)
UPPER(s) == [i \in 1..Len(s) |-> UpperCase[s[i]]]

\* The code compared as typed.
toUpperCaseAbsent(s) == s

\* String.prototype.toUpperCase
toUpperCase(s) == [i \in 1..Len(s) |-> UpperCase[s[i]]]

\* A code as a visitor may type it: in lower case.
toLowerCase(s) == [i \in 1..Len(s) |-> LowerCase[s[i]]]

\* String.prototype.trim (zod's .trim()): without the leading and trailing
\* spaces.
trim(s) ==
  LET keep == {i \in 1..Len(s) : s[i] # " "}
  IN  IF keep = {} THEN <<>>
      ELSE SubSeq(s, CHOOSE i \in keep : \A j \in keep : i <= j,
                     CHOOSE i \in keep : \A j \in keep : j <= i)

\* SQL SUBSTRING(text FROM from FOR n)
SUBSTRING(s, from, n) == SubSeq(s, from, from + n - 1)

\* MD5(uuid::text), 32 lower-case hexadecimal digits; the model's uuids are
\* pairs <<a, b>> of such digits and hash to a eight times, then b.
MD5(uuid) == [i \in 1..32 |-> IF i <= 8 THEN uuid[1] ELSE uuid[2]]

\* The values gen_random_uuid() may take: one, another whose hash agrees with
\* the first one's in the first 8 digits, and one whose hash differs there.
Uuids == {<<"a", "f">>, <<"a", "1">>, <<"0", "f">>}

\* The tracking code without its UPPER.
generate_tracking_codeLower(uuid) ==
  <<"S", "C", "-">> \o SUBSTRING(MD5(uuid), 1, 8)

\* NEW.tracking_code = 'SC-' || UPPER(SUBSTRING(MD5(uuid::text) FROM 1 FOR 8))
generate_tracking_code(uuid) ==
  <<"S", "C", "-">> \o UPPER(SUBSTRING(MD5(uuid), 1, 8))

----------------------------------------------------------------------------
(* Auto-dispatch trigger *)
\* The WHERE clause without its driver_id IS NOT NULL.
CandidatesAnyDriver(ambulances) ==
  {x \in Ambulances : ambulances[x].status = "available"}

\* The WHERE clause without its status = 'available'.
CandidatesAnyStatus(ambulances) ==
  {x \in Ambulances : ambulances[x].driver_id # NULL}

\* WHERE a.status = 'available' AND a.driver_id IS NOT NULL
Candidates(ambulances) ==
  {x \in Ambulances : ambulances[x].status = "available"
                      /\ ambulances[x].driver_id # NULL}

\* The SELECT without its ORDER BY: any candidate may come first.
NearestRowsUnordered(ambulances, row) == Candidates(ambulances)

\* ORDER BY distance ASC LIMIT 1: the rows the SELECT may return (any row of
\* minimal distance; none when no row qualifies).
NearestRows(ambulances, row) ==
  {x \in Candidates(ambulances) :
     \A y \in Candidates(ambulances) :
        ~Less(distance(ambulances[y], row), distance(ambulances[x], row))}

\* The trigger without its IF.
TriggerGuardAbsent(row) == TRUE

\* IF NEW.status = 'pending' AND NEW.assigned_ambulance_id IS NULL
TriggerGuard(row) == row.status = "pending" /\ row.assigned_ambulance_id = NULL

\* The values nearest_ambulance.id may take for the row NEW.
nearest_ambulance(ambulances, row) ==
  IF TriggerGuard(row) /\ NearestRows(ambulances, row) # {}
  THEN NearestRows(ambulances, row)
  ELSE {NULL}

\* NEW as the trigger returns it when nearest_ambulance.id = id.
auto_dispatch_ambulance(ambulances, row, id) ==
  IF id # NULL
  THEN [row EXCEPT !.assigned_ambulance_id = id,
                   !.assigned_driver_id = ambulances[id].driver_id,
                   !.status = "assigned"]
  ELSE row

\* The trigger without its UPDATE of the ambulance.
MarkBusySkipped(ambulances, id) == ambulances

\* UPDATE ambulances SET status = 'busy' WHERE id = nearest_ambulance.id
MarkBusy(ambulances, id) ==
  IF id # NULL THEN [ambulances EXCEPT ![id].status = "busy"] ELSE ambulances

\* The row of the submission form's INSERT: column defaults plus the location.
FormRow(lat, lng) ==
  [status |-> "pending", assigned_ambulance_id |-> NULL,
   assigned_driver_id |-> NULL, completed_at |-> NULL,
   location_lat |-> lat, location_lng |-> lng]

NoRow ==
  [status |-> "none", assigned_ambulance_id |-> NULL,
   assigned_driver_id |-> NULL, completed_at |-> NULL,
   location_lat |-> 0, location_lng |-> 0]

\* BEFORE INSERT trigger, first half: the guard and the SELECT, on the
\* committed ambulances.  given is the row as submitted, new the row as the
\* trigger returns it; seen records the ambulances that were available with a
\* driver at that time, overlap the inserts then in flight.
TriggerSelect(r, row) ==
  /\ txn[r].pc = "idle"
  /\ \A q \in Requests : q < r => txn[q].pc # "idle"
  /\ \E id \in nearest_ambulance(amb, row) :
       txn' = [txn EXCEPT ![r] =
                 [pc |-> "selected", cand |-> id,
                  driver_id |-> IF id = NULL THEN NULL ELSE amb[id].driver_id,
                  seen |-> {x \in Ambulances : amb[x].status = "available"
                                               /\ amb[x].driver_id # NULL},
                  overlap |-> {q \in Requests : txn[q].pc = "selected"},
                  given |-> row,
                  new |-> auto_dispatch_ambulance(amb, row, id)]]
  /\ UNCHANGED <<amb, req, adm, drv, changes, trk>>

\* SQL NULL in a TEXT column: a value no string has.
NULLTEXT == <<NULL>>

\* const emergencyTypes = [...]
emergencyTypes ==
  {"Medical Emergency", "Accident/Trauma", "Cardiac Emergency",
   "Respiratory Distress", "Pregnancy/Childbirth", "Burns", "Poisoning",
   "Other"}

\* requestSchema.safeParse(formData).success (the optional fields, which the
\* model leaves out, aside)
requestSchema(formData) ==
  /\ Len(trim(formData.requesterPhone)) >= 10
  /\ Len(trim(formData.requesterPhone)) <= 20
  /\ formData.emergencyType # ""
  /\ formData.locationLat >= 0 - 90 * 10000
  /\ formData.locationLat <= 90 * 10000
  /\ formData.locationLng >= 0 - 180 * 10000
  /\ formData.locationLng <= 180 * 10000

\* The phone field as typed: empty, ten spaces, five digits, ten digits.
Phones ==
  {<<>>, [i \in 1..10 |-> " "], [i \in 1..5 |-> "0"], [i \in 1..10 |-> "0"]}

\* formData as the page can hold it: the phone as typed, the type none ('')
\* or an item of the Select (one of emergencyTypes), the location the
\* default or the browser's.
Forms ==
  {[requesterPhone |-> p, emergencyType |-> t,
    locationLat |-> loc[1], locationLng |-> loc[2]] :
     p \in Phones, t \in {"", "Medical Emergency"}, loc \in Locations}

\* The forms that pass the validation.
ValidForms == {f \in Forms : requestSchema(f)}

\* handleSubmit: the form is validated; a valid one is INSERTed (status and
\* assignment left to their defaults), an invalid one sets the page's errors.
handleSubmit(r, formData) ==
  /\ txn[r].pc = "idle"
  /\ IF requestSchema(formData)
     THEN TriggerSelect(r, FormRow(formData.locationLat, formData.locationLng))
     ELSE /\ trk' = [trk EXCEPT !.errors = "validation"]
          /\ UNCHANGED <<amb, req, txn, adm, drv, changes>>

\* "Anyone can create emergency request": WITH CHECK (requester_phone IS NOT
\* NULL AND emergency_type IS NOT NULL AND location_lat IS NOT NULL AND
\* location_lng IS NOT NULL)
AnyoneCanCreate(row) ==
  /\ row.requester_phone # NULLTEXT
  /\ row.emergency_type # NULL
  /\ row.location_lat # NULLCOORD
  /\ row.location_lng # NULLCOORD

\* Rows sent to the table's REST endpoint with the public key.
ApiRows ==
  {[requester_phone |-> p, emergency_type |-> t,
    location_lat |-> lat, location_lng |-> lng] :
     p \in {NULLTEXT, <<>>, [i \in 1..10 |-> "0"]},
     t \in {NULL, "Medical Emergency", "Earthquake"},
     lat \in {NULLCOORD, Deg60, 91 * 10000},
     lng \in {0, 181 * 10000}}

\* An INSERT through the API: the policy is all that checks the row.
ApiInsert(r, row) ==
  /\ txn[r].pc = "idle"
  /\ IF AnyoneCanCreate(row)
     THEN TriggerSelect(r, FormRow(row.location_lat, row.location_lng))
     ELSE /\ trk' = [trk EXCEPT !.errors = "policy"]
          /\ UNCHANGED <<amb, req, txn, adm, drv, changes>>

\* An INSERT through the API with status and assignment columns given: the
\* policy "Anyone can create emergency request" checks the phone, the type
\* and the location only.  The row may repeat a stored request's.
DirectRows ==
  {[FormRow(loc[1], loc[2]) EXCEPT
      !.status = s,
      !.assigned_ambulance_id = x,
      !.assigned_driver_id = IF x = NULL THEN NULL ELSE "d1"] :
     loc \in Locations, s \in {"pending", "assigned"}, x \in {NULL, "A1"}}

DirectInsert(r) ==
  \E row \in DirectRows \cup {req[q] : q \in {p \in Requests : req[p].status # "none"}} :
     /\ \A loc \in Locations : row # FormRow(loc[1], loc[2])
     /\ TriggerSelect(r, row)

\* Second half: set_tracking_code, the trigger's UPDATE of the ambulance, the
\* row's insertion and the commit.  A tracking code that a stored row already
\* has violates the UNIQUE constraint: the statement fails and nothing of it
\* is kept.
InsertCommit(r) ==
  /\ txn[r].pc = "selected"
  /\ LET code == generate_tracking_code(trk.uuid[r])
     IN  IF \E q \in Requests : req[q].status # "none" /\ trk.code[q] = code
         THEN /\ txn' = [txn EXCEPT ![r].pc = "failed"]
              /\ UNCHANGED <<amb, req, trk>>
         ELSE /\ amb' = MarkBusy(amb, txn[r].cand)
              /\ req' = [req EXCEPT ![r] = txn[r].new]
              /\ trk' = [trk EXCEPT !.code[r] = code]
              /\ txn' = [txn EXCEPT ![r].pc = "done"]
  /\ UNCHANGED <<adm, drv, changes>>

----------------------------------------------------------------------------
(* Row-level security: the rows an UPDATE by a driver can touch *)

\* "Assigned drivers can update requests": USING (assigned_driver_id = auth.uid())
DriverMayUpdateRequest(row, uid) == row.status # "none" /\ row.assigned_driver_id = uid

\* "Drivers can update own ambulance": USING (driver_id = auth.uid())
DriverMayUpdateAmbulance(row, uid) == row.driver_id = uid

\* The dashboards that have a handler between its first read and its last
\* write.
InFlight ==
  Cardinality({a \in Admins : adm[a].pc # "idle"})
    + Cardinality({d \in Drivers : drv[d].pc # "idle"})

----------------------------------------------------------------------------
(* Administrator dashboard *)

\* const pendingRequests = requests.filter(r => r.status === 'pending')
pendingRequests(requests) == {r \in Requests : requests[r].status = "pending"}

\* const availableAmbulances = ambulances.filter(a => a.status === 'available')
availableAmbulances(ambulances) ==
  {x \in Ambulances : ambulances[x].status = "available"}

\* The requests tab as rendered from fetchData: the administrator picks, for
\* a request shown as pending, one of the ambulances shown as available.
\* assignAmbulance then finds the ambulance among the fetched rows and returns
\* at once when it has no driver.  The administrators are interchangeable:
\* the second dashboard acts only while the first is inside a handler.
onAssignAmbulance(a, requestId, ambulanceId) ==
  /\ adm[a].pc = "idle"
  /\ requestId \in pendingRequests(req)
  /\ ambulanceId \in availableAmbulances(amb)
  /\ InFlight < MaxInFlight
  /\ (a = "adm2" => adm["adm1"].pc # "idle")
  /\ adm' = [adm EXCEPT ![a] =
               IF amb[ambulanceId].driver_id = NULL
               THEN adm[a]
               ELSE [pc |-> "request", requestId |-> requestId,
                     ambulanceId |-> ambulanceId,
                     driver_id |-> amb[ambulanceId].driver_id]]
  /\ UNCHANGED <<amb, req, txn, drv, changes, trk>>

\* The request's UPDATE without its assigned_driver_id.
AssignUpdateNoDriver(requests, requestId, ambulanceId, driverId) ==
  [requests EXCEPT ![requestId].assigned_ambulance_id = ambulanceId,
                   ![requestId].status = "assigned"]

\* .update({assigned_ambulance_id, assigned_driver_id, status: 'assigned'}).eq('id', requestId)
AssignUpdate(requests, requestId, ambulanceId, driverId) ==
  [requests EXCEPT ![requestId].assigned_ambulance_id = ambulanceId,
                   ![requestId].assigned_driver_id = driverId,
                   ![requestId].status = "assigned"]

\* assignAmbulance, first await: the request's UPDATE.
assignAmbulance(a) ==
  /\ adm[a].pc = "request"
  /\ req' = AssignUpdate(req, adm[a].requestId, adm[a].ambulanceId,
                         adm[a].driver_id)
  /\ adm' = [adm EXCEPT ![a].pc = "ambulance"]
  /\ UNCHANGED <<amb, txn, drv, changes, trk>>

\* .update({ status: 'busy' }).eq('id', ambulanceId)
BusyUpdate(ambulances, ambulanceId) ==
  [ambulances EXCEPT ![ambulanceId].status = "busy"]

\* assignAmbulance, second await: the ambulance's UPDATE, then the toast.
assignAmbulanceBusy(a) ==
  /\ adm[a].pc = "ambulance"
  /\ amb' = BusyUpdate(amb, adm[a].ambulanceId)
  /\ adm' = [adm EXCEPT ![a] = [pc |-> "idle", requestId |-> NULL,
                                ambulanceId |-> NULL, driver_id |-> NULL]]
  /\ UNCHANGED <<req, txn, drv, changes, trk>>

\* .update({ driver_id: driverId || null }).eq('id', ambulanceId)
DriverUpdate(ambulances, ambulanceId, driverId) ==
  [ambulances EXCEPT ![ambulanceId].driver_id = driverId]

\* assignDriverToAmbulance, from the ambulances tab's Select, which calls it
\* when the chosen value differs from the one shown ('none' becomes null).
assignDriverToAmbulance(a, ambulanceId, driverId) ==
  /\ adm[a].pc = "idle"
  /\ driverId # amb[ambulanceId].driver_id
  /\ changes < MaxDriverChanges
  /\ changes' = changes + 1
  /\ amb' = DriverUpdate(amb, ambulanceId, driverId)
  /\ UNCHANGED <<req, txn, drv, adm, trk>>

----------------------------------------------------------------------------
(* Driver dashboard *)

\* fetchData, the ambulance: .single() yields a row only when exactly one
\* ambulance has the driver, and setAmbulance runs only then.
FetchAmbulance(ambulances, uid, held) ==
  LET own == {x \in Ambulances : ambulances[x].driver_id = uid}
  IN  IF Cardinality(own) = 1 THEN CHOOSE x \in own : TRUE ELSE held

\* fetchData, the requests: .eq('assigned_driver_id', user.id)
\* .in('status', ['assigned', 'en_route', 'arrived'])
FetchRequests(requests, uid) ==
  {r \in Requests : /\ requests[r].assigned_driver_id = uid
                    /\ requests[r].status \in ActiveStatus}

\* The dashboard as rendered from fetchData: the driver changes the status
\* Select of one of the requests shown to another of its items.
onValueChange(d, requestId, newStatus) ==
  /\ drv[d].pc = "idle"
  /\ requestId \in FetchRequests(req, d)
  /\ newStatus # req[requestId].status
  /\ InFlight < MaxInFlight
  /\ drv' = [drv EXCEPT ![d] =
               [pc |-> "request", requestId |-> requestId,
                newStatus |-> newStatus, rows |-> 0,
                ambulance |-> FetchAmbulance(amb, d, drv[d].ambulance)]]
  /\ UNCHANGED <<amb, req, txn, adm, changes, trk>>

\* The request's UPDATE followed by a dispatch of the pending requests to the
\* driver whose trip it completes.
StatusUpdateRedispatch(requests, uid, requestId, newStatus) ==
  [r \in Requests |->
     IF r = requestId /\ DriverMayUpdateRequest(requests[r], uid)
     THEN [requests[r] EXCEPT
             !.status = newStatus,
             !.completed_at = IF newStatus = "completed" THEN "now" ELSE NULL]
     ELSE IF requests[r].status = "pending" /\ newStatus = "completed"
     THEN [requests[r] EXCEPT
             !.status = "assigned",
             !.assigned_ambulance_id = requests[requestId].assigned_ambulance_id,
             !.assigned_driver_id = uid]
     ELSE requests[r]]

\* .update({status, completed_at}).eq('id', requestId) as driver uid: the
\* policy leaves the row out when the driver is not the assigned one, and an
\* UPDATE of no row is no error.
StatusUpdate(requests, uid, requestId, newStatus) ==
  IF DriverMayUpdateRequest(requests[requestId], uid)
  THEN [requests EXCEPT
          ![requestId].status = newStatus,
          ![requestId].completed_at =
             IF newStatus = "completed" THEN "now" ELSE NULL]
  ELSE requests

\* updateRequestStatus, first await: the request's UPDATE (rows: the number
\* of rows it changed).  Without an ambulance held the handler ends here.
updateRequestStatus(d) ==
  /\ drv[d].pc = "request"
  /\ req' = StatusUpdate(req, d, drv[d].requestId, drv[d].newStatus)
  /\ drv' = [drv EXCEPT ![d] =
               IF drv[d].ambulance # NULL
               THEN [drv[d] EXCEPT
                       !.pc = "ambulance",
                       !.rows = IF DriverMayUpdateRequest(
                                     req[drv[d].requestId], d)
                                THEN 1 ELSE 0]
               ELSE [pc |-> "idle", requestId |-> NULL, newStatus |-> NULL,
                     rows |-> 0, ambulance |-> NULL]]
  /\ UNCHANGED <<amb, txn, adm, changes, trk>>

\* let ambStatus = 'busy'; if (newStatus === 'completed') ...
ambStatus(newStatus) ==
  IF newStatus = "completed" THEN "available"
  ELSE IF newStatus = "en_route" THEN "en_route"
  ELSE IF newStatus = "arrived" THEN "arrived"
  ELSE "busy"

\* The ambulance's UPDATE with a reset of the current coordinates to the base
\* station's on completion.
AmbulanceUpdateReset(ambulances, requests, uid, id, requestId, newStatus) ==
  IF DriverMayUpdateAmbulance(ambulances[id], uid)
  THEN IF newStatus = "arrived"
       THEN [ambulances EXCEPT
               ![id].status = ambStatus(newStatus),
               ![id].current_lat = requests[requestId].location_lat,
               ![id].current_lng = requests[requestId].location_lng]
       ELSE IF newStatus = "completed"
       THEN [ambulances EXCEPT
               ![id].status = ambStatus(newStatus),
               ![id].current_lat = ambulances[id].base_lat,
               ![id].current_lng = ambulances[id].base_lng]
       ELSE [ambulances EXCEPT ![id].status = ambStatus(newStatus)]
  ELSE ambulances

\* The ambulance's UPDATE with the arrival written to the base coordinates
\* as well.
AmbulanceUpdateMovesBase(ambulances, requests, uid, id, requestId, newStatus) ==
  IF DriverMayUpdateAmbulance(ambulances[id], uid)
  THEN IF newStatus = "arrived"
       THEN [ambulances EXCEPT
               ![id].status = ambStatus(newStatus),
               ![id].current_lat = requests[requestId].location_lat,
               ![id].current_lng = requests[requestId].location_lng,
               ![id].base_lat = requests[requestId].location_lat,
               ![id].base_lng = requests[requestId].location_lng]
       ELSE [ambulances EXCEPT ![id].status = ambStatus(newStatus)]
  ELSE ambulances

\* .update(updateData).eq('id', ambulance.id) as driver uid; request is the
\* row of the dashboard's list, whose location never changes.
AmbulanceUpdate(ambulances, requests, uid, id, requestId, newStatus) ==
  IF DriverMayUpdateAmbulance(ambulances[id], uid)
  THEN IF newStatus = "arrived"
       THEN [ambulances EXCEPT
               ![id].status = ambStatus(newStatus),
               ![id].current_lat = requests[requestId].location_lat,
               ![id].current_lng = requests[requestId].location_lng]
       ELSE [ambulances EXCEPT ![id].status = ambStatus(newStatus)]
  ELSE ambulances

\* updateRequestStatus, second await: the ambulance's UPDATE; fetchData
\* follows.
updateAmbulance(d) ==
  /\ drv[d].pc = "ambulance"
  /\ amb' = AmbulanceUpdate(amb, req, d, drv[d].ambulance,
                            drv[d].requestId, drv[d].newStatus)
  /\ drv' = [drv EXCEPT ![d] =
               [pc |-> "idle", requestId |-> NULL, newStatus |-> NULL,
                rows |-> 0,
                ambulance |-> FetchAmbulance(amb', d, drv[d].ambulance)]]
  /\ UNCHANGED <<req, txn, adm, changes, trk>>

----------------------------------------------------------------------------
(* Tracking page *)

\* Codes a visitor may look up: every code the inserts can produce and one
\* they cannot, each as generated, in lower case, and with a lower-case prefix.
TypedCodes ==
  LET codes == {generate_tracking_code(u) : u \in Uuids}
                 \cup {generate_tracking_code(<<"9", "9">>)}
  IN  codes \cup {toLowerCase(c) : c \in codes}
            \cup {<<"s", "c", "-">> \o SubSeq(c, 4, Len(c)) : c \in codes}

\* .eq('tracking_code', code.toUpperCase()).single(): the row when exactly
\* one matches, else an error (0: no request).
single(requests, codes, code) ==
  LET upper == toUpperCase(code)
      rows == {r \in Requests : requests[r].status # "none"
                                /\ codes[r] = upper}
  IN  IF Cardinality(rows) = 1 THEN CHOOSE r \in rows : TRUE ELSE 0

\* fetchRequest: setRequest(data), or setRequest(null) on an error.
fetchRequest(code) ==
  /\ trk' = [trk EXCEPT !.typed = code,
                        !.request = single(req, trk.code, code)]
  /\ UNCHANGED <<amb, req, txn, adm, drv, changes>>

----------------------------------------------------------------------------
(* Specification *)

\* The ambulances as provisioned: available, without a driver, their base
\* coordinates copied from the current ones.
Provisioned(station) ==
  [status |-> "available", driver_id |-> NULL,
   current_lat |-> station[1], current_lng |-> station[2],
   base_lat |-> station[1], base_lng |-> station[2]]

\* The tables as seeded, the dashboards idle, the pages empty; uuid gives, for
\* each insert to come, the value gen_random_uuid() will take in it.
Seeded(uuid) ==
  /\ amb = [x \in Ambulances |-> Provisioned(Station(x))]
  /\ req = [r \in Requests |-> NoRow]
  /\ txn = [r \in Requests |->
              [pc |-> "idle", cand |-> NULL, driver_id |-> NULL,
               seen |-> {}, overlap |-> {},
               given |-> NoRow, new |-> NoRow]]
  /\ adm = [a \in Admins |->
              [pc |-> "idle", requestId |-> NULL, ambulanceId |-> NULL,
               driver_id |-> NULL]]
  /\ drv = [d \in Drivers |->
              [pc |-> "idle", requestId |-> NULL, newStatus |-> NULL,
               rows |-> 0, ambulance |-> NULL]]
  /\ changes = 0
  /\ trk = [uuid |-> uuid, code |-> [r \in Requests |-> <<>>],
            typed |-> <<>>, request |-> 0, errors |-> ""]

\* Random values that differ in their first 8 digits from one insert to the
\* next (they agree with probability 2^-32).
Init == Seeded([r \in Requests |-> <<LowerCaseLetters[r], "f">>])

\* The operations that write the tables, on valid forms.
Next ==
  \/ \E r \in Requests, formData \in ValidForms :
        handleSubmit(r, formData)
  \/ \E r \in Requests : InsertCommit(r)
  \/ \E a \in Admins, r \in Requests, x \in Ambulances :
        onAssignAmbulance(a, r, x)
  \/ \E a \in Admins : assignAmbulance(a)
  \/ \E a \in Admins : assignAmbulanceBusy(a)
  \/ \E a \in Admins, x \in Ambulances, d \in Drivers \cup {NULL} :
        assignDriverToAmbulance(a, x, d)
  \/ \E d \in Drivers, r \in Requests, s \in DriverSelectItems :
        onValueChange(d, r, s)
  \/ \E d \in Drivers : updateRequestStatus(d)
  \/ \E d \in Drivers : updateAmbulance(d)

Spec == Init /\ [][Next]_vars

\* The trigger alone, on every row the INSERT policy lets in: the form's rows
\* and rows inserted with a status or an assignment of their own.
NextDirect ==
  \/ \E r \in Requests, formData \in ValidForms :
        handleSubmit(r, formData)
  \/ \E r \in Requests : DirectInsert(r)
  \/ \E r \in Requests : InsertCommit(r)
  \/ \E a \in Admins, x \in Ambulances, d \in Drivers \cup {NULL} :
        assignDriverToAmbulance(a, x, d)

SpecDirect == Init /\ [][NextDirect]_vars

\* The request form with any input and the table's endpoint with any row,
\* and the inserts behind them, while the administrators attach drivers.
NextForm ==
  \/ \E r \in Requests, formData \in Forms : handleSubmit(r, formData)
  \/ \E r \in Requests, row \in ApiRows : ApiInsert(r, row)
  \/ \E r \in Requests : InsertCommit(r)
  \/ \E a \in Admins, x \in Ambulances, d \in Drivers \cup {NULL} :
        assignDriverToAmbulance(a, x, d)

SpecForm == Init /\ [][NextForm]_vars

\* The inserts with any random values after the first one's, the tracking
\* page, and the administrators' operations on the stored requests.
InitTrack ==
  \E uuid \in [Requests -> Uuids] :
     uuid[1] = <<"a", "f">> /\ Seeded(uuid)

NextTrack ==
  \/ \E r \in Requests, formData \in ValidForms :
        handleSubmit(r, formData)
  \/ \E r \in Requests : InsertCommit(r)
  \/ \E code \in TypedCodes : fetchRequest(code)
  \/ \E a \in Admins, x \in Ambulances, d \in Drivers \cup {NULL} :
        assignDriverToAmbulance(a, x, d)
  \/ \E a \in Admins, r \in Requests, x \in Ambulances :
        onAssignAmbulance(a, r, x)
  \/ \E a \in Admins : assignAmbulance(a)
  \/ \E a \in Admins : assignAmbulanceBusy(a)

SpecTrack == InitTrack /\ [][NextTrack]_vars

\* The status that follows s in the order of the driver's Select items.
NextStatus(s) ==
  CASE s = "assigned" -> "en_route"
    [] s = "en_route" -> "arrived"
    [] OTHER -> "completed"

\* The driver advances a request of the dashboard's list by one status.
Advance(d, r) == onValueChange(d, r, NextStatus(req[r].status))

\* No request has been submitted yet: the administrators set the fleet up.
SetUp == \A r \in Requests : txn[r].pc = "idle"

\* Trips without interference: the drivers are attached before the first
\* request, one administrator assigns the requests left pending, and each
\* driver moves the requests of the dashboard's list forward.
NextTrip ==
  \/ \E a \in Admins, x \in Ambulances, d \in Drivers \cup {NULL} :
        SetUp /\ assignDriverToAmbulance(a, x, d)
  \/ \E r \in Requests, formData \in ValidForms :
        handleSubmit(r, formData)
  \/ \E r \in Requests : InsertCommit(r)
  \/ \E r \in Requests, x \in Ambulances : onAssignAmbulance("adm1", r, x)
  \/ assignAmbulance("adm1")
  \/ assignAmbulanceBusy("adm1")
  \/ \E d \in Drivers, r \in Requests : Advance(d, r)
  \/ \E d \in Drivers : updateRequestStatus(d)
  \/ \E d \in Drivers : updateAmbulance(d)

\* A statement that has been sent is executed and an awaited handler goes
\* on to its next statement; a driver who can advance a request does so.
TripFairness ==
  /\ \A r \in Requests : WF_vars(InsertCommit(r))
  /\ WF_vars(assignAmbulance("adm1"))
  /\ WF_vars(assignAmbulanceBusy("adm1"))
  /\ \A d \in Drivers : WF_vars(updateRequestStatus(d))
  /\ \A d \in Drivers : WF_vars(updateAmbulance(d))
  /\ \A d \in Drivers, r \in Requests : WF_vars(Advance(d, r))

SpecTrip == Init /\ [][NextTrip]_vars /\ TripFairness

----------------------------------------------------------------------------
(* Steps of the operations, as the properties below name them *)

\* The SELECT of request r's insert trigger has just run.
Selects(r) == txn[r].pc = "idle" /\ txn'[r].pc = "selected"

\* Request r's insert has just committed.
Commits(r) == txn[r].pc = "selected" /\ txn'[r].pc = "done"

\* Driver d's request UPDATE has just run.
UpdatesRequest(d) == drv[d].pc = "request" /\ drv'[d].pc # "request"

\* Driver d's ambulance UPDATE has just run.
UpdatesAmbulance(d) == drv[d].pc = "ambulance" /\ drv'[d].pc = "idle"

\* The ambulances that are available and have a driver.
AvailableWithDriver ==
  {x \in Ambulances : amb[x].status = "available" /\ amb[x].driver_id # NULL}

\* The requests that reference ambulance x while assigned, en_route or arrived.
ActiveOn(x) ==
  {r \in Requests : req[r].assigned_ambulance_id = x
                    /\ req[r].status \in ActiveStatus}

----------------------------------------------------------------------------
(* C1 *)

\* C1 (as claimed): in every reachable state each ambulance is referenced as
\* assigned_ambulance_id by at most one request whose status is assigned,
\* en_route or arrived.
C1_AtMostOneActiveRequest ==
  \A x \in Ambulances : Cardinality(ActiveOn(x)) <= 1

----------------------------------------------------------------------------
(* C2 *)

\* C2 (as claimed): when two inserts run their auto-dispatch concurrently and
\* both see the same single candidate ambulance, the two rows are never both
\* inserted as assigned to that ambulance.
C2_ExactlyOneClaims ==
  \A r1, r2 \in Requests :
     ( /\ r1 # r2
       /\ r1 \in txn[r2].overlap
       /\ txn[r1].pc = "done" /\ txn[r2].pc = "done"
       /\ txn[r1].seen = txn[r2].seen
       /\ Cardinality(txn[r1].seen) = 1 )
     => ~ ( /\ txn[r1].new.assigned_ambulance_id \in txn[r1].seen
            /\ txn[r2].new.assigned_ambulance_id \in txn[r1].seen )

----------------------------------------------------------------------------
(* C3 *)

\* The haversine distance (its increasing image) from ambulance x to row.
Haversine(x, row) ==
  calculateDistance(COALESCE(amb[x].current_lat, DefaultLat),
                    COALESCE(amb[x].current_lng, DefaultLng),
                    row.location_lat, row.location_lng)

\* C3 (as claimed): auto-dispatch on a new pending request selects, among the
\* ambulances that are available and have a driver, one whose haversine
\* distance to the request (from the default point when a coordinate is null)
\* is minimal, and none when there is no such ambulance.
C3_SelectsHaversineNearest ==
  [][\A r \in Requests :
       (Selects(r) /\ txn'[r].given.status = "pending"
                   /\ txn'[r].given.assigned_ambulance_id = NULL)
       => IF AvailableWithDriver = {}
          THEN txn'[r].cand = NULL
          ELSE /\ txn'[r].cand \in AvailableWithDriver
               /\ \A y \in AvailableWithDriver :
                     Haversine(txn'[r].cand, txn'[r].given)
                        <= Haversine(y, txn'[r].given)]_vars

\* C3 (amended): auto-dispatch on a new pending request selects, among the
\* ambulances that are available and have a driver, one whose planar distance
\* on the raw coordinate differences in degrees, sqrt(dlat^2 + dlng^2) (from
\* the default point 9.0579, 7.4951 when a coordinate is null), is minimal,
\* and none when there is no such ambulance.
C3_SelectsPlanarNearest ==
  [][\A r \in Requests :
       (Selects(r) /\ txn'[r].given.status = "pending"
                   /\ txn'[r].given.assigned_ambulance_id = NULL)
       => IF AvailableWithDriver = {}
          THEN txn'[r].cand = NULL
          ELSE /\ txn'[r].cand \in AvailableWithDriver
               /\ \A y \in AvailableWithDriver :
                     ~Less(distance(amb[y], txn'[r].given),
                           distance(amb[txn'[r].cand], txn'[r].given))]_vars

\* A dispatch that had two candidates, one of them without coordinates and
\* so measured from the default point, and chose that one.
C3_Witness ==
  \E r \in Requests :
     /\ txn[r].pc = "selected"
     /\ txn[r].seen = Ambulances
     /\ txn[r].cand # NULL
     /\ amb[txn[r].cand].current_lat = NULLCOORD

----------------------------------------------------------------------------
(* C4 *)

\* C4: when auto-dispatch finds a candidate for a newly inserted request, the
\* insertion stores the request with assigned_ambulance_id the candidate's id,
\* assigned_driver_id the candidate's driver_id and status assigned, and
\* leaves the candidate ambulance with status busy.
C4_DispatchAssigns ==
  [][\A r \in Requests :
       (Commits(r) /\ txn[r].cand # NULL)
       => /\ req'[r].assigned_ambulance_id = txn[r].cand
          /\ req'[r].assigned_driver_id = txn[r].driver_id
          /\ req'[r].assigned_driver_id # NULL
          /\ req'[r].status = "assigned"
          /\ amb'[txn[r].cand].status = "busy"]_vars

\* A request just inserted as assigned to its candidate, which is busy.
C4_Witness ==
  \E r \in Requests :
     /\ txn[r].pc = "done" /\ txn[r].cand # NULL
     /\ req[r].status = "assigned"
     /\ req[r].assigned_ambulance_id = txn[r].cand
     /\ amb[txn[r].cand].status = "busy"

----------------------------------------------------------------------------
(* C5 *)

\* C5: when no ambulance is both available and has a driver at the time a
\* request is inserted, the trigger finds no candidate and the insertion
\* stores the request as pending with null assigned_ambulance_id and
\* assigned_driver_id, changing no ambulance row.
C5_NoCandidateStaysPending ==
  [][\A r \in Requests :
       /\ (Selects(r) /\ AvailableWithDriver = {}) => txn'[r].cand = NULL
       /\ (Commits(r) /\ txn[r].seen = {} /\ txn[r].given.status = "pending"
                      /\ txn[r].given.assigned_ambulance_id = NULL)
          => /\ req'[r].status = "pending"
             /\ req'[r].assigned_ambulance_id = NULL
             /\ req'[r].assigned_driver_id = NULL
             /\ amb' = amb]_vars

\* A request inserted after an earlier insert had taken the ambulance that
\* had a driver: it found no candidate and is stored pending and unassigned.
C5_Witness ==
  \E q, r \in Requests :
     /\ q < r
     /\ txn[q].pc = "done" /\ txn[q].cand # NULL
     /\ txn[r].pc = "done" /\ txn[r].seen = {} /\ txn[r].overlap = {}
     /\ req[r].status = "pending"
     /\ req[r].assigned_ambulance_id = NULL
     /\ req[r].assigned_driver_id = NULL
     /\ \E x \in Ambulances : amb[x].driver_id # NULL /\ amb[x].status = "busy"

----------------------------------------------------------------------------
(* C6 *)

\* C6: the dispatch trigger run on a row whose status is not pending or whose
\* assigned_ambulance_id is already set selects nothing and returns the row
\* as given: status, assigned ambulance and assigned driver are unchanged and
\* no ambulance's status changes.
C6_TriggerNoOp ==
  [][\A r \in Requests :
       LET guarded == \/ txn'[r].given.status # "pending"
                      \/ txn'[r].given.assigned_ambulance_id # NULL
       IN /\ (Selects(r) /\ guarded)
             => txn'[r].cand = NULL /\ txn'[r].new = txn'[r].given
          /\ (Commits(r) /\ guarded)
             => req'[r] = txn[r].given /\ amb' = amb]_vars

\* The trigger has run on an already-assigned row while another ambulance was
\* available with a driver, and that ambulance is still available.
C6_Witness ==
  \E r \in Requests :
     /\ txn[r].pc = "done"
     /\ txn[r].given.status = "assigned"
     /\ txn[r].given.assigned_ambulance_id # NULL
     /\ txn[r].seen # {}
     /\ \A x \in txn[r].seen : amb[x].status = "available"
     /\ req[r] = txn[r].given

----------------------------------------------------------------------------
(* C7 *)

\* C7 (as claimed): once a request's status is completed or cancelled, no
\* later operation changes that request's status.
C7_TerminalStatusNeverChanges ==
  [][\A r \in Requests :
       req[r].status \in {"completed", "cancelled"}
       => req'[r].status = req[r].status]_vars

----------------------------------------------------------------------------
(* C8 *)

\* The edges of the lifecycle graph.
LifecycleEdges ==
  {<<"pending", "assigned">>, <<"assigned", "en_route">>,
   <<"en_route", "arrived">>, <<"arrived", "completed">>}
    \cup {<<s, "cancelled">> : s \in {"pending", "assigned", "en_route", "arrived"}}

\* C8 (as claimed): every change of a stored request's status follows an edge
\* of the lifecycle graph, and a driver's status update that asks for another
\* edge is rejected: the step that carries it leaves every request and every
\* ambulance as it was.
C8_OnlyLifecycleEdges ==
  [][/\ \A r \in Requests :
          (req[r].status # "none" /\ req'[r].status # req[r].status)
          => <<req[r].status, req'[r].status>> \in LifecycleEdges
     /\ \A d \in Drivers :
          (UpdatesRequest(d)
             /\ <<req[drv[d].requestId].status, drv[d].newStatus>>
                   \notin LifecycleEdges)
          => req' = req /\ amb' = amb]_vars

----------------------------------------------------------------------------
(* C9 *)

\* C9 (as claimed): a status update attempted by a driver who is not the
\* request's assigned_driver_id changes neither the request's status and
\* completed_at nor, as its side effect, any ambulance's status or
\* coordinates.
C9_WrongDriverChangesNothing ==
  [][\A d \in Drivers :
       /\ (UpdatesRequest(d) /\ req[drv[d].requestId].assigned_driver_id # d)
          => req' = req
       /\ (UpdatesAmbulance(d) /\ drv[d].rows = 0) => amb' = amb]_vars

----------------------------------------------------------------------------
(* C10 *)

\* Driver d's handler has just ended after its request UPDATE set the
\* request's status to completed.
CompletesRequest(d) ==
  /\ drv[d].newStatus = "completed"
  /\ drv'[d].pc = "idle"
  /\ \/ UpdatesRequest(d) /\ req[drv[d].requestId].assigned_driver_id = d
     \/ UpdatesAmbulance(d) /\ drv[d].rows = 1

\* C10 (as claimed): when the assigned driver advances a request to
\* completed, the request's completed_at becomes non-null and the ambulance
\* referenced by its assigned_ambulance_id has status available when the
\* update is done.
C10_CompletionFreesAmbulance ==
  [][\A d \in Drivers :
       CompletesRequest(d)
       => LET r == drv[d].requestId
          IN  (req'[r].status = "completed")
              => /\ req'[r].completed_at # NULL
                 /\ amb'[req'[r].assigned_ambulance_id].status = "available"]_vars

----------------------------------------------------------------------------
(* C11 *)

\* Driver d's handler has just ended after its request UPDATE set the
\* request's status to arrived.
ArrivesRequest(d) ==
  /\ drv[d].newStatus = "arrived"
  /\ drv'[d].pc = "idle"
  /\ \/ UpdatesRequest(d) /\ req[drv[d].requestId].assigned_driver_id = d
     \/ UpdatesAmbulance(d) /\ drv[d].rows = 1

\* C11 (as claimed): when the assigned driver advances a request to arrived,
\* the current coordinates of the ambulance referenced by the request's
\* assigned_ambulance_id are the request's location coordinates when the
\* update is done; a driver's update to any other status changes no
\* ambulance's current coordinates.
C11_ArrivalMovesAmbulance ==
  [][\A d \in Drivers :
       /\ ArrivesRequest(d)
          => LET r == drv[d].requestId
                 x == req'[r].assigned_ambulance_id
             IN  /\ amb'[x].current_lat = req'[r].location_lat
                 /\ amb'[x].current_lng = req'[r].location_lng
       /\ ((UpdatesRequest(d) \/ UpdatesAmbulance(d))
              /\ drv[d].newStatus # "arrived")
          => \A x \in Ambulances :
                /\ amb'[x].current_lat = amb[x].current_lat
                /\ amb'[x].current_lng = amb[x].current_lng]_vars

----------------------------------------------------------------------------
(* C12 *)

\* C12: in every reachable state each request has assigned_ambulance_id and
\* assigned_driver_id either both null or both non-null.
C12_AssignmentBothOrNeither ==
  \A r \in Requests :
     (req[r].assigned_ambulance_id = NULL) <=> (req[r].assigned_driver_id = NULL)

\* A request left pending by the trigger and then assigned by an
\* administrator, with both columns set.
C12_Witness ==
  \E r \in Requests :
     /\ txn[r].pc = "done" /\ txn[r].cand = NULL
     /\ req[r].status = "assigned"
     /\ req[r].assigned_ambulance_id # NULL
     /\ req[r].assigned_driver_id # NULL

----------------------------------------------------------------------------
(* C13 *)

\* C13 (as claimed): in every reachable state a stored request's completed_at
\* is non-null if and only if its status is completed.
C13_CompletedAtIffCompleted ==
  \A r \in Requests :
     req[r].status # "none"
     => ((req[r].completed_at # NULL) <=> (req[r].status = "completed"))

----------------------------------------------------------------------------
(* C14 *)

\* Administrator a's request UPDATE has just run.
AssignsRequest(a) == adm[a].pc = "request" /\ adm'[a].pc = "ambulance"

\* Administrator a's ambulance UPDATE has just run.
AssignsAmbulance(a) == adm[a].pc = "ambulance" /\ adm'[a].pc = "idle"

\* C14 (as claimed): a manual assignment of ambulance A to request R leaves R
\* with assigned_ambulance_id = A, assigned_driver_id equal to A's driver_id
\* at the time the assignment is applied and status assigned, and leaves A
\* busy; choosing an ambulance that has no driver changes neither the request
\* nor the ambulance.
C14_ManualAssignment ==
  [][\A a \in Admins :
       /\ AssignsRequest(a)
          => LET R == adm[a].requestId
                 A == adm[a].ambulanceId
             IN  /\ req'[R].assigned_ambulance_id = A
                 /\ req'[R].assigned_driver_id = amb[A].driver_id
                 /\ req'[R].status = "assigned"
       /\ AssignsAmbulance(a) => amb'[adm[a].ambulanceId].status = "busy"
       /\ \A R \in Requests, A \in Ambulances :
             (onAssignAmbulance(a, R, A) /\ amb[A].driver_id = NULL)
             => req' = req /\ amb' = amb /\ adm'[a].pc = "idle"]_vars

----------------------------------------------------------------------------
(* C15 *)

\* C15: a stored request's status leaves pending only in the request UPDATE
\* of an administrator's manual assignment of that request; no other step
\* (a trip's completion, a driver being attached, another insert) assigns it.
C15_NoRedispatch ==
  [][\A r \in Requests :
       (req[r].status = "pending" /\ req'[r] # req[r])
       => \E a \in Admins : AssignsRequest(a) /\ adm[a].requestId = r]_vars

\* A request stored pending because no ambulance had a driver is still
\* pending and unassigned although an ambulance is now available with a driver.
C15_Witness ==
  \E r \in Requests :
     /\ txn[r].pc = "done" /\ txn[r].seen = {}
     /\ req[r].status = "pending"
     /\ req[r].assigned_ambulance_id = NULL
     /\ AvailableWithDriver # {}

----------------------------------------------------------------------------
(* C16 *)

UpperAlnum ==
  {UpperCaseLetters[k] : k \in 1..Len(UpperCaseLetters)}
    \cup {"0", "1", "2", "3", "4", "5", "6", "7", "8", "9"}

\* SC- followed by 8 upper-case alphanumeric characters.
WellFormedCode(c) ==
  /\ Len(c) = 11
  /\ c[1] = "S" /\ c[2] = "C" /\ c[3] = "-"
  /\ \A i \in 4..11 : c[i] \in UpperAlnum

\* C16: every stored request has a tracking code of the form SC- followed by
\* 8 upper-case alphanumeric characters, set by its insertion, different from
\* the tracking code of every other stored request (checked after every step
\* that writes the request or a tracking code), and no later step changes the
\* tracking code of a stored request.
C16_TrackingCode ==
  [][/\ \A r \in Requests :
          (req'[r].status # "none" /\ <<req'[r], trk'.code>> # <<req[r], trk.code>>)
          => /\ WellFormedCode(trk'.code[r])
             /\ \A q \in Requests \ {r} :
                   req'[q].status # "none" => trk'.code[q] # trk'.code[r]
     /\ \A r \in Requests :
          req[r].status # "none" => trk'.code[r] = trk.code[r]]_vars

\* A stored request that an administrator has assigned since its insertion,
\* with its code, and another insert that drew the same code and failed.
C16_Witness ==
  \E r, q \in Requests :
     /\ req[r].status = "assigned" /\ txn[r].cand = NULL
     /\ WellFormedCode(trk.code[r])
     /\ txn[q].pc = "failed"
     /\ generate_tracking_code(trk.uuid[q]) = trk.code[r]

----------------------------------------------------------------------------
(* C17 *)

\* a and b are the same string up to the case of their letters.
SameIgnoringCase(a, b) ==
  /\ Len(a) = Len(b)
  /\ \A i \in 1..Len(a) : LowerCase[a[i]] = LowerCase[b[i]]

\* C17: a lookup (a step that changes the tracking page) with a stored
\* request's tracking code, typed in any letter case, returns that request,
\* and a lookup with a code that no stored request has returns no request.
C17_LookupRoundTrip ==
  [][<<trk'.typed, trk'.request>> # <<trk.typed, trk.request>>
       => LET owners == {r \in Requests :
                           /\ req[r].status # "none"
                           /\ SameIgnoringCase(trk.code[r], trk'.typed)}
          IN  /\ \A r \in owners : trk'.request = r
              /\ owners = {} => trk'.request = 0]_vars

\* A lookup typed in another case than the code's has returned the request.
C17_Witness ==
  /\ trk.request \in Requests
  /\ req[trk.request].status # "none"
  /\ trk.typed # trk.code[trk.request]
  /\ SameIgnoringCase(trk.typed, trk.code[trk.request])

----------------------------------------------------------------------------
(* C18 *)

\* A submitted row has no phone, a latitude outside [-90, 90], a longitude
\* outside [-180, 180] or an emergency type outside the enumerated set.
Malformed(phone, type, lat, lng) ==
  \/ phone = NULLTEXT \/ trim(phone) = <<>>
  \/ lat < 0 - 90 * 10000 \/ lat > 90 * 10000
  \/ lng < 0 - 180 * 10000 \/ lng > 180 * 10000
  \/ type \notin emergencyTypes

\* C18 (as claimed): a submission with a missing phone, an out-of-range
\* latitude or longitude or an emergency type outside the enumerated set,
\* made through the form or sent to the table's endpoint, starts no insert:
\* no request row, no dispatch, no change to an ambulance.
C18_MalformedRejected ==
  [][\A r \in Requests :
       /\ \A f \in Forms :
             (handleSubmit(r, f)
                /\ Malformed(f.requesterPhone, f.emergencyType,
                             f.locationLat, f.locationLng))
             => UNCHANGED <<amb, req, txn>>
       /\ \A row \in ApiRows :
             (ApiInsert(r, row)
                /\ Malformed(row.requester_phone, row.emergency_type,
                             row.location_lat, row.location_lng))
             => UNCHANGED <<amb, req, txn>>]_vars

----------------------------------------------------------------------------
(* C19 *)

\* A step of an operation of the administrator dashboard.
AdministratorStep ==
  \E a \in Admins :
     \/ \E r \in Requests, x \in Ambulances : onAssignAmbulance(a, r, x)
     \/ assignAmbulance(a)
     \/ assignAmbulanceBusy(a)
     \/ \E x \in Ambulances, d \in Drivers \cup {NULL} :
           assignDriverToAmbulance(a, x, d)

\* C19 (as claimed): whenever a stored request is pending, assigned, en_route
\* or arrived, an administrator operation can set its status to cancelled.
C19_CancelledReachable ==
  \A r \in Requests :
     req[r].status \in {"pending", "assigned", "en_route", "arrived"}
     => ENABLED (AdministratorStep /\ req'[r].status = "cancelled")

----------------------------------------------------------------------------
(* C20 *)

\* C20 (as claimed): an assignment or a status transition writes the request
\* and the ambulance as one atomic step: once a handler has written the
\* request, the next step is its write of the ambulance, no other operation
\* runs in between.
C20_AtomicWrites ==
  [][/\ \A a \in Admins : adm[a].pc = "ambulance" => AssignsAmbulance(a)
     /\ \A d \in Drivers : drv[d].pc = "ambulance" => UpdatesAmbulance(d)]_vars

----------------------------------------------------------------------------
(* C21 *)

\* C21 (as claimed): a manual assignment takes effect only if, when its
\* request UPDATE is applied, the request is still pending and unassigned and
\* the chosen ambulance is still available: otherwise the UPDATE leaves every
\* request as it was, and the ambulance UPDATE of an assignment that the
\* request does not carry marks no ambulance busy.
C21_StaleAssignmentNoEffect ==
  [][\A a \in Admins :
       /\ (AssignsRequest(a)
             /\ ~ ( /\ req[adm[a].requestId].status = "pending"
                    /\ req[adm[a].requestId].assigned_ambulance_id = NULL
                    /\ amb[adm[a].ambulanceId].status = "available" ))
          => req' = req
       /\ (AssignsAmbulance(a)
             /\ req[adm[a].requestId].assigned_ambulance_id # adm[a].ambulanceId)
          => amb' = amb]_vars

----------------------------------------------------------------------------
(* C22 *)

\* C22: the ambulance the trigger's SELECT returns has, in the committed
\* table the SELECT reads, status available (not busy, en_route, arrived or
\* offline) and a non-null driver_id; and whenever an insert stores an
\* assigned_ambulance_id other than the submitted one, it is that selected
\* ambulance, which was available with a driver when it was selected.
C22_DispatchOnlyAvailableWithDriver ==
  [][\A r \in Requests :
       /\ (Selects(r) /\ txn'[r].cand # NULL)
          => /\ amb[txn'[r].cand].status = "available"
             /\ amb[txn'[r].cand].driver_id # NULL
       /\ (Commits(r) /\ req'[r].assigned_ambulance_id
                            # txn[r].given.assigned_ambulance_id)
          => /\ req'[r].assigned_ambulance_id = txn[r].cand
             /\ txn[r].cand \in txn[r].seen
             /\ req'[r].assigned_driver_id # NULL]_vars

\* A dispatch that has selected the farther ambulance A1 while the nearer
\* one, A2, has a driver but is on a trip (en_route or arrived).
C22_Witness ==
  \E r \in Requests :
     /\ txn[r].pc = "selected" /\ txn[r].cand = "A1" /\ txn[r].seen = {"A1"}
     /\ txn[r].new.assigned_ambulance_id = "A1"
     /\ amb["A2"].driver_id # NULL
     /\ amb["A2"].status \in {"en_route", "arrived"}

----------------------------------------------------------------------------
(* C23 *)

\* No dashboard is inside a handler and no insert is inside its transaction.
Quiescent ==
  /\ \A a \in Admins : adm[a].pc = "idle"
  /\ \A d \in Drivers : drv[d].pc = "idle"
  /\ \A r \in Requests : txn[r].pc # "selected"

\* C23 (as claimed): in every reachable state (here: every state in which no
\* handler is between its statements) an ambulance whose status is available
\* is not referenced as assigned_ambulance_id by any request with status
\* assigned, en_route or arrived.
C23_AvailableNotReferenced ==
  Quiescent
  => \A x \in Ambulances : amb[x].status = "available" => ActiveOn(x) = {}

----------------------------------------------------------------------------
(* C24 *)

\* C24 (as claimed): in every reachable state (here: every state in which no
\* handler is between its statements) an ambulance whose status is busy,
\* en_route or arrived is referenced as assigned_ambulance_id by some request
\* with status assigned, en_route or arrived.
C24_InUseReferenced ==
  Quiescent
  => \A x \in Ambulances :
        amb[x].status \in {"busy", "en_route", "arrived"} => ActiveOn(x) # {}

----------------------------------------------------------------------------
(* C25 *)

\* C25 (as claimed): in every reachable state (here: every state in which no
\* handler is between its statements), for each request with status assigned,
\* en_route or arrived, assigned_driver_id equals the current driver_id of the
\* ambulance its assigned_ambulance_id references.
C25_DriverMatchesAmbulance ==
  Quiescent
  => \A r \in Requests :
        req[r].status \in ActiveStatus
        => /\ req[r].assigned_ambulance_id \in Ambulances
           /\ req[r].assigned_driver_id
                 = amb[req[r].assigned_ambulance_id].driver_id

----------------------------------------------------------------------------
(* C26 *)

\* C26 (as claimed): in every reachable state no two ambulances have the same
\* non-null driver_id.
C26_UniqueDriver ==
  \A x, y \in Ambulances :
     (x # y /\ amb[x].driver_id # NULL) => amb[x].driver_id # amb[y].driver_id

----------------------------------------------------------------------------
(* C27 *)

\* Driver d's handler has just ended after its request UPDATE set the
\* request's status to s.
AdvancesRequest(d, s) ==
  /\ drv[d].newStatus = s
  /\ drv'[d].pc = "idle"
  /\ \/ UpdatesRequest(d) /\ req[drv[d].requestId].assigned_driver_id = d
     \/ UpdatesAmbulance(d) /\ drv[d].rows = 1

\* The ambulance status that goes with a request status.
Mirror(s) == IF s = "assigned" THEN "busy" ELSE s

\* C27 (as claimed): when a driver's status update has set a request to
\* en_route or to arrived, the ambulance the request's assigned_ambulance_id
\* references has that status when the update is done; and in every state in
\* which no handler is between its statements, the ambulance of a request
\* that is assigned, en_route or arrived is busy, en_route or arrived
\* respectively.
C27_AmbulanceMirrorsRequest ==
  [][/\ \A d \in Drivers, s \in {"en_route", "arrived"} :
          (AdvancesRequest(d, s) /\ req'[drv[d].requestId].status = s)
          => amb'[req'[drv[d].requestId].assigned_ambulance_id].status = s
     /\ Quiescent'
        => \A r \in Requests :
              req'[r].status \in ActiveStatus
              => amb'[req'[r].assigned_ambulance_id].status
                    = Mirror(req'[r].status)]_vars

----------------------------------------------------------------------------
(* C28 *)

----------------------------------------------------------------------------
(* C29 *)

\* C29: no step of a dispatch, a manual assignment, a driver assignment or a
\* status transition changes an ambulance's base_lat or base_lng: they keep
\* the values of the provisioning in every reachable state.
C29_BaseCoordinatesImmutable ==
  [][\A x \in Ambulances :
       /\ amb'[x].base_lat = amb[x].base_lat
       /\ amb'[x].base_lng = amb[x].base_lng
       /\ <<amb'[x].base_lat, amb'[x].base_lng>> = Station(x)]_vars

\* An ambulance that has arrived: its current coordinates are the request's,
\* its base coordinates still the station's.
C29_Witness ==
  \E r \in Requests, x \in Ambulances :
     /\ req[r].status = "arrived" /\ req[r].assigned_ambulance_id = x
     /\ amb[x].status = "arrived"
     /\ <<amb[x].current_lat, amb[x].current_lng>>
           = <<req[r].location_lat, req[r].location_lng>>
     /\ <<amb[x].base_lat, amb[x].base_lng>> = Station(x)
     /\ <<amb[x].current_lat, amb[x].current_lng>> # Station(x)

----------------------------------------------------------------------------
(* C30 *)

\* C30 (as claimed): when the drivers keep advancing their requests and no
\* administrator interferes, every request that is assigned to an ambulance
\* eventually is completed with that ambulance available again.
C30_AssignedEventuallyCompleted ==
  \A r \in Requests, x \in Ambulances :
     (req[r].status = "assigned" /\ req[r].assigned_ambulance_id = x)
        ~> (req[r].status = "completed" /\ amb[x].status = "available")

====
